---- MODULE Spec2Model ----
(***************************************************************************)
(* A model of scripts/functions/forms.ts: the chest form builder           *)
(* (ChestFormData), the busy-retry submission (queueForm), the item        *)
(* wrapper (ItemData) and the world store (WorldDataT).                    *)
(*                                                                         *)
(* Text is modelled as a sequence of one-character strings, so that        *)
(* lengths, padding and the JSON encoding are computed, not assumed.       *)
(***************************************************************************)
EXTENDS Integers, Sequences, FiniteSets, TLC

VARIABLES
    \* ChestFormData
    chestSize,      \* the size token the form was constructed with
    titleText,      \* this.titleText: the size's template, then every appended text
    buttonArray,    \* this.buttonArray: a JS array; Hole marks an index never assigned
    slotCount,      \* this.slotCount
    formCall,       \* the last call made on the form, with its arguments
    \* queueForm
    chains,         \* per queueForm call: what was submitted and what came of it
    \* ItemData and the player's slots
    item,           \* this.item: lore, dynamic properties, damage, built-in enchantments
    thisSlot,       \* this.slot of the wrapper
    DurabilityComponent,   \* whether the item has the durability component
    EnchantableComponent,  \* whether the item has the enchantable component
    maxDurability,  \* this.maxDurability
    container,      \* the item in the player's container slot
    equipment,      \* the item in the player's equipment slot
    inserted,       \* the custom-lore keys present, in the order they were first added
    calls,          \* how many calls have been made on the wrapper
    \* WorldDataT
    worldProps,     \* the world's dynamic properties
    \* both stores
    thrown          \* the error the last call threw, NoError when it returned

formVars == <<chestSize, titleText, buttonArray, slotCount, formCall>>
queueVars == <<chains>>
itemVars == <<item, thisSlot, DurabilityComponent, EnchantableComponent, maxDurability,
              container, equipment, inserted, calls>>
storeVars == <<worldProps, thrown>>
vars == <<chestSize, titleText, buttonArray, slotCount, formCall, chains,
          item, thisSlot, DurabilityComponent, EnchantableComponent, maxDurability,
          container, equipment, inserted, calls, worldProps, thrown>>

(***************************************************************************)
(* Bounds of the model.                                                    *)
(***************************************************************************)
\* how many texts title() may append
MaxTitleAppends == 1
\* how far past the last slot a button() index may point
MaxOverflow == 1
\* how many concurrent queueForm calls
MaxCalls == 2
\* how many times one chain may be submitted to the host
MaxShows == 3
\* the maximum durability of the wrapped item
MaxDurability == 1
\* how many calls are made on one wrapper
MaxItemCalls == 3
\* the display length of the longest lore line given to addCustomLore()
MaxLineLength == 29

(***************************************************************************)
(* ChestFormData                                                           *)
(***************************************************************************)
\* an array index that was never assigned (Array.prototype.forEach skips it)
Hole == [hole |-> TRUE]

\* the pair ['', undefined] every slot starts with
EmptyEntry == [stack |-> 0, name |-> "", desc |-> <<>>, icon |-> [none |-> TRUE]]

\* const number_of_1_16_100_items = 0
number_of_1_16_100_items == 0

\* enum ChestSize, and one token that is not in it
ChestSize == {"single", "small", "double", "large", "5", "9", "18", "27", "36", "45", "54"}
UnknownSize == "huge"

\* const sizes = new Map<ChestSize, [string, number]>
sizes ==
    [s \in ChestSize |->
        CASE s = "single" -> <<"chest27", 27>>
          [] s = "small"  -> <<"chest27", 27>>
          [] s = "double" -> <<"chest54", 54>>
          [] s = "large"  -> <<"chest54", 54>>
          [] s = "5"      -> <<"chest05", 5>>
          [] s = "9"      -> <<"chest09", 9>>
          [] s = "18"     -> <<"chest18", 18>>
          [] s = "27"     -> <<"chest27", 27>>
          [] s = "36"     -> <<"chest36", 36>>
          [] s = "45"     -> <<"chest45", 45>>
          [] s = "54"     -> <<"chest54", 54>>]

\* a fallback to the large chest for an unknown size
SizeEntryLargeDefault(size) == IF size \in DOMAIN sizes THEN sizes[size] ELSE <<"chest54", 54>>

\* sizes.get(size) ?? ['chest27', 27]
SizeEntry(size) == IF size \in DOMAIN sizes THEN sizes[size] ELSE <<"chest27", 27>>

\* the texture tables of ./typeIds.js: type id -> numeric id
typeIdToDataId == [t \in {"minecraft:wool"} |-> 35]
typeIdToID == [t \in {"minecraft:stone", "minecraft:diamond_sword"} |->
                 IF t = "minecraft:stone" THEN 1 ELSE 316]

\* typeIdToDataId.get(texture) ?? typeIdToID.get(texture); a record with no id when both miss
LookupID(texture) ==
    IF texture \in DOMAIN typeIdToDataId THEN [found |-> TRUE, id |-> typeIdToDataId[texture]]
    ELSE IF texture \in DOMAIN typeIdToID THEN [found |-> TRUE, id |-> typeIdToID[texture]]
    ELSE [found |-> FALSE]

Min(a, b) == IF a < b THEN a ELSE b
Max(a, b) == IF a > b THEN a ELSE b

\* the [itemText, iconPath] pair button() builds
ButtonEntry(itemName, itemDesc, texture, stackAmount, enchanted) ==
    LET ID == LookupID(texture)
    IN [ stack |-> Min(Max(stackAmount, 1), 99),
         name  |-> itemName,
         desc  |-> itemDesc,
         icon  |-> IF ID.found
                     THEN [num |-> ((ID.id + (IF ID.id < 260 THEN 0 ELSE number_of_1_16_100_items)) * 65536)
                                    + (IF enchanted THEN 32768 ELSE 0)]
                     ELSE [path |-> texture] ]

\* arr[slot] = entry on a JS array: an index at or past the length grows the
\* array, leaving holes; a negative index sets a property and no element
ArrayAssign(arr, slot, entry) ==
    IF slot < 0 THEN arr
    ELSE [i \in 1..Max(Len(arr), slot + 1) |->
            IF i = slot + 1 THEN entry
            ELSE IF i <= Len(arr) THEN arr[i] ELSE Hole]

\* button(): no bounds check on slot (it is commented out)
button(arr, slot, itemName, itemDesc, texture, stackAmount, enchanted) ==
    ArrayAssign(arr, slot, ButtonEntry(itemName, itemDesc, texture, stackAmount, enchanted))

\* const numCols = 9
numCols == 9

\* a key entry's optional fields, with button()'s defaults
KeyName(data) == IF "itemName" \in DOMAIN data THEN data.itemName ELSE ""
KeyDesc(data) == IF "itemDesc" \in DOMAIN data THEN data.itemDesc ELSE <<>>
KeyStack(data) == IF "stackAmount" \in DOMAIN data THEN data.stackAmount ELSE 1
KeyEnchanted(data) == IF "enchanted" \in DOMAIN data THEN data.enchanted ELSE FALSE

\* the guard without its slot test
PatternGuardNoBound(key, char, slot, count) == char \in DOMAIN key

\* the guard of pattern()'s inner loop: data && slot < slotCount
PatternGuard(key, char, slot, count) == char \in DOMAIN key /\ slot < count

\* pattern()'s inner loop over one row, from column colIndex (0-based) on
RECURSIVE PatternRow(_, _, _, _, _, _)
PatternRow(arr, row, rowIndex, colIndex, key, count) ==
    IF colIndex >= Len(row) THEN arr
    ELSE LET char == row[colIndex + 1]
             slot == colIndex + rowIndex * numCols
             next == IF PatternGuard(key, char, slot, count)
                       THEN button(arr, slot, KeyName(key[char]), KeyDesc(key[char]),
                                   key[char].texture, KeyStack(key[char]), KeyEnchanted(key[char]))
                       ELSE arr
         IN PatternRow(next, row, rowIndex, colIndex + 1, key, count)

\* pattern()'s outer loop, from row rowIndex (0-based) on
RECURSIVE PatternRows(_, _, _, _, _)
PatternRows(arr, pat, rowIndex, key, count) ==
    IF rowIndex >= Len(pat) THEN arr
    ELSE PatternRows(PatternRow(arr, pat[rowIndex + 1], rowIndex, 0, key, count),
                     pat, rowIndex + 1, key, count)

pattern(arr, pat, key, count) == PatternRows(arr, pat, 0, key, count)

\* show(): one host button per element forEach visits, under the title
Visited(arr) == SelectSeq(arr, LAMBDA entry : entry # Hole)

show == [title |-> titleText, buttons |-> Visited(buttonArray)]

(* ------------------------- inputs of the form ------------------------- *)
Rep(c, n) == [i \in 1..n |-> c]

TitleTexts == {"Shop"}

\* the slots button() is called with: the last slot, and past either end
ButtonSlots == {-1, slotCount - 1} \cup (slotCount .. slotCount + MaxOverflow - 1)

KeyA == [texture |-> "minecraft:stone"]
KeyB == [itemName |-> "Close", itemDesc |-> <<"Leave">>, stackAmount |-> 150,
         enchanted |-> TRUE, texture |-> "textures/ui/cross"]
Keys == { [c \in {"a"} |-> KeyA],
          [c \in {"a", "b"} |-> IF c = "a" THEN KeyA ELSE KeyB] }

\* row lists: one short row; and a row of ten characters followed by more rows
\* than the largest form has
Patterns == { << <<"a", "_", "b">> >>,
              << Rep("a", 10), <<"_", "b">>, <<>>, <<"a">>, <<"b">>, <<"a">>, <<"b", "_", "a">> >> }

(* ------------------------- actions of the form ------------------------ *)
NoCall == [op |-> "new"]

\* new ChestFormData(size)
FormInit ==
    \E size \in ChestSize \cup {UnknownSize} :
        /\ chestSize = size
        /\ titleText = <<SizeEntry(size)[1]>>
        /\ slotCount = SizeEntry(size)[2]
        /\ buttonArray = [i \in 1..SizeEntry(size)[2] |-> EmptyEntry]
        /\ formCall = NoCall

Title ==
    \E text \in TitleTexts :
        /\ Len(titleText) <= MaxTitleAppends
        /\ titleText' = Append(titleText, text)
        /\ formCall' = [op |-> "title"]
        /\ UNCHANGED <<chestSize, buttonArray, slotCount>>

Button ==
    \E slot \in ButtonSlots :
        /\ buttonArray' = button(buttonArray, slot, "Item", <<>>, "minecraft:diamond_sword", 0, TRUE)
        /\ formCall' = [op |-> "button", slot |-> slot]
        /\ UNCHANGED <<chestSize, titleText, slotCount>>

Pattern ==
    \E pat \in Patterns, key \in Keys :
        /\ buttonArray' = pattern(buttonArray, pat, key, slotCount)
        /\ formCall' = [op |-> "pattern", pat |-> pat, key |-> key]
        /\ UNCHANGED <<chestSize, titleText, slotCount>>

FormIdle == chestSize = "small" /\ titleText = <<"chest27">> /\ slotCount = 27 /\ buttonArray = <<>> /\ formCall = NoCall

(***************************************************************************)
(* queueForm                                                               *)
(***************************************************************************)
Players == {"steve", "alex"}
Forms == {"menu", "shop"}

\* what the host may settle a show() promise with
Responses == { [canceled |-> FALSE, selection |-> 0],
               [canceled |-> TRUE, cancelationReason |-> "UserBusy"],
               [canceled |-> TRUE, cancelationReason |-> "UserClosed"] }

\* a chain before its queueForm call. player, form: the call's arguments; shown: the show() calls made; settled: what
\* the host settled them with; called: the callback's invocations; logged: the
\* console.error calls; uncaught: rejections no handler took
IsCancel(r) == "canceled" \in DOMAIN r /\ r.canceled
IsBusy(r) == IsCancel(r) /\ r.cancelationReason = "UserBusy"
IsRejection(r) == "rejected" \in DOMAIN r

NotQueued == [status |-> "idle", player |-> "", form |-> "", shown |-> <<>>,
              settled |-> <<>>, called |-> <<>>, logged |-> 0, uncaught |-> 0]

\* form.show(player): one more submission awaiting the host
Submit(c, player, form) ==
    [c EXCEPT !.status = "pending", !.shown = Append(@, [player |-> player, form |-> form])]

\* a handler that retries on every cancellation
OnResponseRetryAll(c0, response, callbackThrows) ==
    LET c == [c0 EXCEPT !.settled = Append(@, response)]
    IN
    IF response.canceled
      THEN Submit(c, c.player, c.form)
      ELSE [c EXCEPT !.status = "done", !.called = Append(@, response)]

\* a handler that gives up after two submissions
OnResponseCapped(c0, response, callbackThrows) ==
    LET c == [c0 EXCEPT !.settled = Append(@, response)]
    IN
    IF response.canceled
      THEN IF response.cancelationReason = "UserBusy" /\ Len(c.shown) < 2
             THEN Submit(c, c.player, c.form)
             ELSE [c EXCEPT !.status = "dropped"]
      ELSE IF callbackThrows
             THEN [c EXCEPT !.status = "done", !.called = Append(@, response), !.logged = @ + 1]
             ELSE [c EXCEPT !.status = "done", !.called = Append(@, response)]

\* the .then handler of queueForm, for one response
OnResponse(c0, response, callbackThrows) ==
    LET c == [c0 EXCEPT !.settled = Append(@, response)]
    IN
    IF response.canceled
      THEN IF response.cancelationReason = "UserBusy"
             THEN Submit(c, c.player, c.form)
             ELSE [c EXCEPT !.status = "dropped"]
      ELSE IF callbackThrows
             \* the callback's exception rejects the chained promise: .catch logs it
             THEN [c EXCEPT !.status = "done", !.called = Append(@, response), !.logged = @ + 1]
             ELSE [c EXCEPT !.status = "done", !.called = Append(@, response)]

Rejection == [rejected |-> TRUE]

\* a handler that submits again after a fault
OnRejectRetry(c) ==
    Submit([c EXCEPT !.settled = Append(@, Rejection), !.logged = @ + 1], c.player, c.form)

\* the .catch handler of queueForm
OnReject(c) ==
    [c EXCEPT !.status = "faulted", !.settled = Append(@, Rejection), !.logged = @ + 1]

QueueInit == chains = [i \in 1..MaxCalls |-> NotQueued]

\* a caller runs queueForm(player, form, callback)
QueueFormOf(players, forms) ==
    \E i \in 1..MaxCalls, player \in players, form \in forms :
        /\ chains[i].status = "idle"
        /\ chains' = [chains EXCEPT ![i] = Submit([@ EXCEPT !.player = player, !.form = form],
                                                   player, form)]
QueueForm == QueueFormOf(Players, Forms)

\* the host resolves the pending promise of a chain
HostResolve ==
    \E i \in 1..MaxCalls, response \in Responses, callbackThrows \in BOOLEAN :
        /\ chains[i].status = "pending"
        /\ Len(chains[i].shown) < MaxShows \/ ~IsBusy(response)
        /\ chains' = [chains EXCEPT ![i] = OnResponse(@, response, callbackThrows)]

\* the host rejects the pending promise of a chain
HostReject ==
    \E i \in 1..MaxCalls :
        /\ chains[i].status = "pending"
        /\ chains' = [chains EXCEPT ![i] = OnReject(@)]

(***************************************************************************)
(* Values and their JSON text                                              *)
(*                                                                         *)
(* A value is a record with one field that names its type: [str |-> text], *)
(* [num |-> n], [bool |-> b], [null |-> TRUE], [arr |-> <<values>>],       *)
(* [obj |-> << <<key, value>>, ... >>] in the object's own key order, and   *)
(* [undef |-> TRUE] for undefined.                                         *)
(***************************************************************************)
Undefined == [undef |-> TRUE]
JNull == [null |-> TRUE]
JStr(text) == [str |-> text]
JNum(n) == [num |-> n]
JBool(b) == [bool |-> b]
JArr(elems) == [arr |-> elems]
JObj(pairs) == [obj |-> pairs]
EmptyObj == [obj |-> <<>>]

IsStr(v) == "str" \in DOMAIN v
IsNum(v) == "num" \in DOMAIN v
IsBool(v) == "bool" \in DOMAIN v
IsNull(v) == "null" \in DOMAIN v
IsArr(v) == "arr" \in DOMAIN v
IsObj(v) == "obj" \in DOMAIN v
IsUndefined(v) == "undef" \in DOMAIN v

\* typeof value === "object"
TypeofObject(v) == IsNull(v) \/ IsArr(v) \/ IsObj(v)

\* the values JavaScript takes for false in `x || y`
Falsy(v) ==
    \/ IsUndefined(v) \/ IsNull(v)
    \/ IsBool(v) /\ ~v.bool
    \/ IsNum(v) /\ v.num = 0
    \/ IsStr(v) /\ v.str = <<>>

Digits == <<"0", "1", "2", "3", "4", "5", "6", "7", "8", "9">>
IsDigit(c) == \E d \in 1..10 : Digits[d] = c
DigitVal(c) == (CHOOSE d \in 1..10 : Digits[d] = c) - 1

\* String(n) for a natural number
RECURSIVE NatToText(_)
NatToText(n) ==
    IF n < 10 THEN <<Digits[n + 1]>>
    ELSE NatToText(n \div 10) \o <<Digits[(n % 10) + 1]>>

\* String(n) for an integer
NumToText(n) == IF n < 0 THEN <<"-">> \o NatToText(-n) ELSE NatToText(n)

\* the number a run of digits writes
RECURSIVE TextToNat(_)
TextToNat(text) ==
    IF text = <<>> THEN 0
    ELSE 10 * TextToNat(SubSeq(text, 1, Len(text) - 1)) + DigitVal(text[Len(text)])

\* a canonical array index: the property keys an object lists first, in
\* ascending order
IsArrayIndex(key) ==
    /\ key # <<>>
    /\ \A i \in 1..Len(key) : IsDigit(key[i])
    /\ Len(key) > 1 => key[1] # "0"

(* ------------------------- JavaScript objects ------------------------- *)
ObjHas(pairs, key) == \E i \in 1..Len(pairs) : pairs[i][1] = key
ObjGet(pairs, key) == pairs[CHOOSE i \in 1..Len(pairs) : pairs[i][1] = key][2]
ObjKeys(pairs) == [i \in 1..Len(pairs) |-> pairs[i][1]]

\* where a new key goes: array indices ascending, then the other keys in
\* the order they were added
InsertAt(pairs, key) ==
    IF IsArrayIndex(key)
      THEN 1 + Cardinality({ i \in 1..Len(pairs) :
                               IsArrayIndex(pairs[i][1]) /\ TextToNat(pairs[i][1]) < TextToNat(key) })
      ELSE Len(pairs) + 1

\* obj[key] = value
ObjSet(pairs, key, value) ==
    IF ObjHas(pairs, key)
      THEN [i \in 1..Len(pairs) |-> IF pairs[i][1] = key THEN <<key, value>> ELSE pairs[i]]
      ELSE LET at == InsertAt(pairs, key)
           IN SubSeq(pairs, 1, at - 1) \o << <<key, value>> >> \o SubSeq(pairs, at, Len(pairs))

\* delete obj[key]
ObjDelete(pairs, key) == SelectSeq(pairs, LAMBDA p : p[1] # key)

(* ---------------------------- JSON.stringify -------------------------- *)
RECURSIVE Escape(_)
Escape(text) ==
    IF text = <<>> THEN <<>>
    ELSE (IF Head(text) \in {"\"", "\\"} THEN <<"\\", Head(text)>> ELSE <<Head(text)>>)
         \o Escape(Tail(text))

Quote(text) == <<"\"">> \o Escape(text) \o <<"\"">>

RECURSIVE Stringify(_), StringifyElems(_), StringifyMembers(_)
Stringify(v) ==
    CASE IsStr(v)  -> Quote(v.str)
      [] IsNum(v)  -> NumToText(v.num)
      [] IsBool(v) -> IF v.bool THEN <<"t", "r", "u", "e">> ELSE <<"f", "a", "l", "s", "e">>
      [] IsNull(v) -> <<"n", "u", "l", "l">>
      [] IsArr(v)  -> <<"[">> \o StringifyElems(v.arr) \o <<"]">>
      [] IsObj(v)  -> <<"{">> \o StringifyMembers(v.obj) \o <<"}">>

StringifyElems(elems) ==
    IF elems = <<>> THEN <<>>
    ELSE Stringify(Head(elems))
         \o (IF Len(elems) > 1 THEN <<",">> \o StringifyElems(Tail(elems)) ELSE <<>>)

StringifyMembers(pairs) ==
    IF pairs = <<>> THEN <<>>
    ELSE Quote(Head(pairs)[1]) \o <<":">> \o Stringify(Head(pairs)[2])
         \o (IF Len(pairs) > 1 THEN <<",">> \o StringifyMembers(Tail(pairs)) ELSE <<>>)

\* safeJsonStringify of ../functions/json: JSON.stringify
safeJsonStringify(value) == Stringify(value)

(* ------------------------------ JSON.parse ---------------------------- *)
\* a parse step gives [ok |-> TRUE, v |-> value, i |-> next position] or ParseFail
ParseFail == [ok |-> FALSE]
Parsed(v, i) == [ok |-> TRUE, v |-> v, i |-> i]

RECURSIVE SkipWs(_, _)
SkipWs(t, i) == IF i <= Len(t) /\ t[i] = " " THEN SkipWs(t, i + 1) ELSE i

StartsWith(t, i, word) ==
    /\ i + Len(word) - 1 <= Len(t)
    /\ SubSeq(t, i, i + Len(word) - 1) = word

\* the end of the run of digits that starts at i
RECURSIVE DigitsEnd(_, _)
DigitsEnd(t, i) == IF i <= Len(t) /\ IsDigit(t[i]) THEN DigitsEnd(t, i + 1) ELSE i

\* a JSON integer at i: 0, or a digit 1-9 and more digits
ParseNat(t, i) ==
    IF i > Len(t) \/ ~IsDigit(t[i]) THEN ParseFail
    ELSE IF t[i] = "0" THEN Parsed(JNum(0), i + 1)
    ELSE Parsed(JNum(TextToNat(SubSeq(t, i, DigitsEnd(t, i) - 1))), DigitsEnd(t, i))

\* the rest of a string whose opening quote was read
RECURSIVE ParseString(_, _, _)
ParseString(t, i, acc) ==
    IF i > Len(t) THEN ParseFail
    ELSE IF t[i] = "\"" THEN Parsed(JStr(acc), i + 1)
    ELSE IF t[i] = "\\"
      THEN IF i + 1 <= Len(t) /\ t[i + 1] \in {"\"", "\\"}
             THEN ParseString(t, i + 2, Append(acc, t[i + 1]))
             ELSE ParseFail
    ELSE ParseString(t, i + 1, Append(acc, t[i]))

RECURSIVE ParseValue(_, _), ParseElems(_, _, _), ParseMembers(_, _, _)
ParseValue(t, i0) ==
    LET i == SkipWs(t, i0)
    IN IF i > Len(t) THEN ParseFail
       ELSE CASE t[i] = "\"" -> ParseString(t, i + 1, <<>>)
              [] t[i] = "-" ->
                    LET r == ParseNat(t, i + 1)
                    IN IF r.ok THEN Parsed(JNum(-r.v.num), r.i) ELSE ParseFail
              [] IsDigit(t[i]) -> ParseNat(t, i)
              [] t[i] = "t" -> IF StartsWith(t, i, <<"t", "r", "u", "e">>)
                                 THEN Parsed(JBool(TRUE), i + 4) ELSE ParseFail
              [] t[i] = "f" -> IF StartsWith(t, i, <<"f", "a", "l", "s", "e">>)
                                 THEN Parsed(JBool(FALSE), i + 5) ELSE ParseFail
              [] t[i] = "n" -> IF StartsWith(t, i, <<"n", "u", "l", "l">>)
                                 THEN Parsed(JNull, i + 4) ELSE ParseFail
              [] t[i] = "[" ->
                    IF SkipWs(t, i + 1) <= Len(t) /\ t[SkipWs(t, i + 1)] = "]"
                      THEN Parsed(JArr(<<>>), SkipWs(t, i + 1) + 1)
                      ELSE ParseElems(t, i + 1, <<>>)
              [] t[i] = "{" ->
                    IF SkipWs(t, i + 1) <= Len(t) /\ t[SkipWs(t, i + 1)] = "}"
                      THEN Parsed(JObj(<<>>), SkipWs(t, i + 1) + 1)
                      ELSE ParseMembers(t, i + 1, <<>>)
              [] OTHER -> ParseFail

\* the elements of an array from i on, after the elements acc
ParseElems(t, i, acc) ==
    LET r == ParseValue(t, i)
    IN IF ~r.ok THEN ParseFail
       ELSE LET j == SkipWs(t, r.i)
            IN IF j > Len(t) THEN ParseFail
               ELSE IF t[j] = "," THEN ParseElems(t, j + 1, Append(acc, r.v))
               ELSE IF t[j] = "]" THEN Parsed(JArr(Append(acc, r.v)), j + 1)
               ELSE ParseFail

\* the members of an object from i on, after the members acc
ParseMembers(t, i0, acc) ==
    LET i == SkipWs(t, i0)
    IN IF i > Len(t) \/ t[i] # "\"" THEN ParseFail
       ELSE LET k == ParseString(t, i + 1, <<>>)
            IN IF ~k.ok THEN ParseFail
               ELSE LET c == SkipWs(t, k.i)
                    IN IF c > Len(t) \/ t[c] # ":" THEN ParseFail
                       ELSE LET r == ParseValue(t, c + 1)
                            IN IF ~r.ok THEN ParseFail
                               ELSE LET j == SkipWs(t, r.i)
                                        obj == ObjSet(acc, k.v.str, r.v)
                                    IN IF j > Len(t) THEN ParseFail
                                       ELSE IF t[j] = "," THEN ParseMembers(t, j + 1, obj)
                                       ELSE IF t[j] = "}" THEN Parsed(JObj(obj), j + 1)
                                       ELSE ParseFail

\* JSON.parse(text): the whole text is one value, or the parse fails
JsonParse(t) ==
    LET r == ParseValue(t, 1)
    IN IF r.ok /\ SkipWs(t, r.i) > Len(t) THEN r ELSE ParseFail

\* safeJsonParser of ../functions/json: JSON.parse of the stored value (a
\* stored number or boolean is first converted to its text), and the value
\* itself when the parse fails
safeJsonParser(value) ==
    LET text == CASE IsStr(value)  -> value.str
                  [] IsNum(value)  -> NumToText(value.num)
                  [] IsBool(value) -> IF value.bool THEN <<"t", "r", "u", "e">>
                                                      ELSE <<"f", "a", "l", "s", "e">>
                  [] OTHER         -> <<"u", "n", "d", "e", "f", "i", "n", "e", "d">>
        r == JsonParse(text)
    IN IF r.ok THEN r.v ELSE value

(***************************************************************************)
(* Texts                                                                   *)
(***************************************************************************)
T_sharpness == <<"s", "h", "a", "r", "p", "n", "e", "s", "s">>
T_Sharpness == <<"S", "h", "a", "r", "p", "n", "e", "s", "s">>
T_luck == <<"l", "u", "c", "k">>
T_speed == <<"s", "p", "e", "e", "d">>
T_Speed == <<"S", "p", "e", "e", "d">>
T_failed == <<"-", "f", "a", "i", "l", "e", "d">>
T_HasCustomProperties == <<"H", "a", "s", " ", "C", "u", "s", "t", "o", "m", " ", "P", "r", "o", "p", "e", "r", "t", "i", "e", "s">>
T_Enchantments == <<"E", "n", "c", "h", "a", "n", "t", "m", "e", "n", "t", "s">>
T_Effects == <<"E", "f", "f", "e", "c", "t", "s">>
T_name == <<"n", "a", "m", "e">>
T_level == <<"l", "e", "v", "e", "l">>
T_effect == <<"e", "f", "f", "e", "c", "t">>
T_RareItem == <<"R", "a", "r", "e", " ", "I", "t", "e", "m">>
T_Info == <<"I", "n", "f", "o">>
T_Sharp == <<"S", "h", "a", "r", "p">>
T_Fast == <<"F", "a", "s", "t">>
T_2024 == <<"2", "0", "2", "4">>
T_Hand == <<"H", "a", "n", "d">>
T_hi == <<"h", "i">>
T_42 == <<"4", "2">>
T_a == <<"a">>

(***************************************************************************)
(* ItemData                                                                *)
(***************************************************************************)
NoError == "none"
InvalidValue == "Invalid value."
RangeError == "RangeError"

\* an empty container or equipment slot
NoItem == [empty |-> TRUE]

\* this.slot: undefined, a container slot number, or an equipment slot
NoSlot == [undef |-> TRUE]
IsNumber(sl) == "num" \in DOMAIN sl

\* a Player entity carries both components updateItem() asks for
playerHasContainer == TRUE
playerHasEquipment == TRUE

\* the wrapper and the host slots during a call: m.item is this.item,
\* m.container and m.equipment what the player's two slots hold, m.writes the
\* setItem/setEquipment calls made so far, m.thrown the error that ended the call
Machine(it, cont, equip) ==
    [item |-> it, container |-> cont, equipment |-> equip, writes |-> 0, thrown |-> NoError]

Throw(m, err) == [m EXCEPT !.thrown = err]

\* an updateItem() that writes a numeric slot to the equipment
updateItemSwapped(m) ==
    IF thisSlot = NoSlot THEN m
    ELSE IF ~playerHasContainer \/ ~playerHasEquipment THEN m
    ELSE IF IsNumber(thisSlot)
      THEN [m EXCEPT !.equipment = m.item, !.writes = @ + 1]
      ELSE [m EXCEPT !.container = m.item, !.writes = @ + 1]

\* updateItem()
updateItem(m) ==
    IF thisSlot = NoSlot THEN m
    ELSE IF ~playerHasContainer \/ ~playerHasEquipment THEN m
    ELSE IF IsNumber(thisSlot)
      THEN [m EXCEPT !.container = m.item, !.writes = @ + 1]
      ELSE [m EXCEPT !.equipment = m.item, !.writes = @ + 1]

\* getDynamicProperty(key)
getDynamicProperty(m, key) == safeJsonParser(m.item.props[key])

\* a setDynamicProperty() that writes before it tests the value
setDynamicPropertyLateCheck(m, key, value) ==
    LET stored == IF TypeofObject(value) THEN JStr(safeJsonStringify(value)) ELSE value
        m1 == updateItem([m EXCEPT !.item.props[key] = stored])
    IN IF IsUndefined(value) THEN Throw(m1, InvalidValue) ELSE m1

\* setDynamicProperty(key, value)
setDynamicProperty(m, key, value) ==
    IF IsUndefined(value) THEN Throw(m, InvalidValue)
    ELSE LET stored == IF TypeofObject(value) THEN JStr(safeJsonStringify(value)) ELSE value
         IN updateItem([m EXCEPT !.item.props[key] = stored])

(* -------------------------------- lore -------------------------------- *)
getLore(m) == m.item.lore

setLore(m, lore) == updateItem([m EXCEPT !.item.lore = lore])

addLore(m, line) == setLore(m, Append(getLore(m), line))

\* currentLore.splice(index, 1), index 0-based and not negative
Splice(lore, index) ==
    IF index + 1 > Len(lore) THEN lore
    ELSE SubSeq(lore, 1, index) \o SubSeq(lore, index + 2, Len(lore))

\* currentLore.indexOf(line), 0-based, -1 when absent
IndexOf(lore, line) ==
    IF \E i \in 1..Len(lore) : lore[i] = line
      THEN (CHOOSE i \in 1..Len(lore) : lore[i] = line /\ \A j \in 1..i - 1 : lore[j] # line) - 1
      ELSE -1

\* removeLore(lore): by index or by line
removeLore(m, lore) ==
    IF IsNum(lore) THEN setLore(m, Splice(getLore(m), lore.num))
    ELSE IF IndexOf(getLore(m), lore.str) # -1
      THEN setLore(m, Splice(getLore(m), IndexOf(getLore(m), lore.str)))
      ELSE setLore(m, getLore(m))

(* ----------------------------- custom lore ---------------------------- *)
\* this.getDynamicProperty(key) || {}
OrEmpty(value) == IF Falsy(value) THEN EmptyObj ELSE value

PropertyOrEmpty(m, key) == OrEmpty(getDynamicProperty(m, key))

getCustomLore(m) == PropertyOrEmpty(m, "lore")

getCustomEnchantments(m) == PropertyOrEmpty(m, "enchantments")

getEffects(m) == PropertyOrEmpty(m, "effects")

\* category || index, index the line or the first line of the list
LoreKey(lore, category) ==
    IF ~Falsy(category) THEN category.str
    ELSE IF IsStr(lore) THEN lore.str ELSE lore.arr[1].str

addCustomLore(m, lore, category) ==
    setDynamicProperty(m, "lore",
        JObj(ObjSet(PropertyOrEmpty(m, "lore").obj, LoreKey(lore, category), lore)))

removeCustomLore(m, lore, category) ==
    setDynamicProperty(m, "lore",
        JObj(ObjDelete(PropertyOrEmpty(m, "lore").obj, LoreKey(lore, category))))

(* ------------------------------ updateLore ---------------------------- *)
\* the section sign (U+00A7) that starts a formatting code, written "$" here
SectionSign == "$"

\* removeFormat of ./ChatFormat: the text without its formatting codes, a
\* section sign and the character after it
RECURSIVE removeFormat(_)
removeFormat(text) ==
    IF text = <<>> THEN <<>>
    ELSE IF Head(text) = SectionSign THEN removeFormat(SubSeq(text, 3, Len(text)))
    ELSE <<Head(text)>> \o removeFormat(Tail(text))

\* MinecraftFormatCodes.BOLD, MinecraftFormatCodes.RESET
BOLD == <<SectionSign, "l">>
RESET == <<SectionSign, "r">>

\* EnchantmentTitles of ../titles/EnchantmentTitles, ItemEffects of ../titles/ItemEffects
EnchantmentTitles == [n \in {T_sharpness} |-> T_Sharpness]
ItemEffects == [n \in {T_speed} |-> T_Speed]

\* table[name] || name + "-failed"
TitleOf(table, name) ==
    IF name \in DOMAIN table /\ table[name] # <<>> THEN table[name] ELSE name \o T_failed

longestText == T_HasCustomProperties

\* Math.floor(displaySpaces / 2 + 0.5) + 3 for the text of a line
LinePad(text) == ((Len(longestText) - Len(removeFormat(text))) + 1) \div 2 + 3

\* a line to add: the argument of " ".repeat() and the text after the spaces
Line(text) == [pad |-> LinePad(text), text |-> text]

\* the header of a lore category
CategoryHeader(key) ==
    [pad |-> (Len(longestText) + 1) \div 2 + 3, text |-> BOLD \o key \o RESET]

\* the header of the enchantments and of the effects: Math.floor(spacing / 2) + 1
SectionHeader(title) ==
    [pad |-> (Len(longestText) - Len(title)) \div 2 + 1, text |-> BOLD \o title \o RESET]

\* the lines of the loop over customLore, from entry i on
RECURSIVE CustomLoreLines(_, _)
CustomLoreLines(pairs, i) ==
    IF i > Len(pairs) THEN <<>>
    ELSE LET key == pairs[i][1]
             currentLore == pairs[i][2]
         IN (IF IsStr(currentLore)
               THEN <<Line(currentLore.str)>>
               ELSE <<CategoryHeader(key)>>
                    \o [k \in 1..Len(currentLore.arr) |-> Line(currentLore.arr[k].str)])
            \o CustomLoreLines(pairs, i + 1)

\* the lines of the loop over enchantments
EnchantmentLines(pairs) ==
    [i \in 1..Len(pairs) |->
        LET enchantmentData == pairs[i][2].obj
            enchantmentTitle == TitleOf(EnchantmentTitles, ObjGet(enchantmentData, T_name).str)
        IN Line(enchantmentTitle \o <<" ">> \o NumToText(ObjGet(enchantmentData, T_level).num))]

\* the lines of the loop over effects
EffectLines(pairs) ==
    [i \in 1..Len(pairs) |->
        Line(TitleOf(ItemEffects, ObjGet(pairs[i][2].obj, T_name).str))]

\* this.addLore(" ".repeat(pad) + text) for each line in turn; repeat() throws
\* a RangeError on a negative count, which ends the call
RECURSIVE AddLines(_, _)
AddLines(m, lines) ==
    IF lines = <<>> \/ m.thrown # NoError THEN m
    ELSE IF Head(lines).pad < 0 THEN Throw(m, RangeError)
    ELSE AddLines(addLore(m, Rep(" ", Head(lines).pad) \o Head(lines).text), Tail(lines))

\* the lines updateLore() adds before it reads the effects: the custom lore,
\* the header of the enchantments, the enchantments
LoreLines(m) ==
    CustomLoreLines(PropertyOrEmpty(m, "lore").obj, 1)
    \o <<SectionHeader(T_Enchantments)>>
    \o EnchantmentLines(getCustomEnchantments(m).obj)

\* an effects section that has its header even without effects
EffectsSectionAlways(m) ==
    <<SectionHeader(T_Effects)>> \o EffectLines(getEffects(m).obj)

\* the lines of the effects section; none when there are no effects
EffectsSectionLines(effects) ==
    IF Len(effects) = 0 THEN <<>> ELSE <<SectionHeader(T_Effects)>> \o EffectLines(effects)

EffectsSection(m) == EffectsSectionLines(getEffects(m).obj)

\* the end of updateLore(): the return when there are no effects, and
\* this.updateItem() after the effects
EffectsEnd(m, lines) ==
    IF lines = <<>> \/ m.thrown # NoError THEN m ELSE updateItem(m)

\* updateLore() from this.setLore([]) on, the effects read
Regenerate(m, effects) ==
    EffectsEnd(AddLines(AddLines(setLore(m, <<>>), LoreLines(m)), effects), effects)

\* updateLore()
updateLore(m) == Regenerate(m, EffectsSection(m))

(* ------------------- custom enchantments and effects ------------------ *)
\* a setCustomEnchantments() that leaves the lore as it is
setCustomEnchantmentsNoLore(m, enchantments) ==
    setDynamicProperty(m, "enchantments", enchantments)

setCustomEnchantments(m, enchantments) ==
    LET m1 == setDynamicProperty(m, "enchantments", enchantments)
    IN IF m1.thrown # NoError THEN m1 ELSE updateLore(m1)

addCustomEnchantment(m, enchantment) ==
    setCustomEnchantments(m,
        JObj(ObjSet(getCustomEnchantments(m).obj, ObjGet(enchantment.obj, T_name).str, enchantment)))

\* a removeCustomEnchantment() that deletes nothing
removeCustomEnchantmentKeep(m, name) == setCustomEnchantments(m, getCustomEnchantments(m))

removeCustomEnchantment(m, name) ==
    setCustomEnchantments(m, JObj(ObjDelete(getCustomEnchantments(m).obj, name)))

setEffects(m, effects) == setDynamicProperty(m, "effects", effects)

addEffect(m, effect) ==
    setEffects(m, JObj(ObjSet(getEffects(m).obj, ObjGet(effect.obj, T_effect).str, effect)))

removeEffect(m, name) == setEffects(m, JObj(ObjDelete(getEffects(m).obj, name)))

(* ----------------- built-in enchantments and durability --------------- *)
getEnchantments(m) == IF ~EnchantableComponent THEN {} ELSE m.item.enchantments

hasEnchantment(m, type) == IF ~EnchantableComponent THEN FALSE ELSE type \in m.item.enchantments

addEnchantment(m, type) ==
    IF ~EnchantableComponent THEN m
    ELSE updateItem([m EXCEPT !.item.enchantments = @ \cup {type}])

removeEnchantment(m, type) ==
    IF ~EnchantableComponent THEN m
    ELSE updateItem([m EXCEPT !.item.enchantments = @ \ {type}])

\* removeAllEnchantments(): the method of the component is named, not called
removeAllEnchantments(m) ==
    IF ~EnchantableComponent THEN m
    ELSE updateItem(m)

setDurability(m, durability) ==
    IF ~DurabilityComponent THEN m
    ELSE updateItem([m EXCEPT !.item.damage = maxDurability - durability])

getDurability(m) == IF ~DurabilityComponent THEN 0 ELSE maxDurability - m.item.damage

setDamage(m, damage) ==
    IF ~DurabilityComponent THEN m
    ELSE updateItem([m EXCEPT !.item.damage = damage])

getDamage(m) == IF ~DurabilityComponent THEN 0 ELSE m.item.damage

addDamage(m, damage) ==
    IF ~DurabilityComponent THEN m
    ELSE updateItem([m EXCEPT !.item.damage = @ + damage])

repairItem(m) == setDurability(m, 0)

(***************************************************************************)
(* WorldDataT                                                              *)
(***************************************************************************)
World_getDynamicProperty(props, key) == safeJsonParser(props[key])

\* setDynamicProperty(key, value): the world's properties after the call, and
\* the error it threw
World_setDynamicProperty(props, key, value) ==
    IF IsUndefined(value) THEN [props |-> props, thrown |-> InvalidValue]
    ELSE LET stored == IF TypeofObject(value) THEN JStr(safeJsonStringify(value)) ELSE value
         IN [props |-> [props EXCEPT ![key] = stored], thrown |-> NoError]

(***************************************************************************)
(* The calls made on an item wrapper                                       *)
(***************************************************************************)
PropKeys == {"lore", "enchantments", "effects", "stats"}

Pair(key, value) == <<key, value>>

\* the arguments of addCustomLore() and removeCustomLore(): a line under the
\* category "Info", and a list of lines under the category "2024"
LoreInputs == { [lore |-> JStr(T_RareItem), category |-> JStr(T_Info)],
                [lore |-> JArr(<<JStr(T_Sharp), JStr(T_Fast)>>), category |-> JStr(T_2024)] }

\* lines of several display lengths, each stored under itself (no category):
\* a line with a formatting code, a line one shorter than the longest, the
\* longest line; and the list of LoreInputs under its category
LongLoreInputs ==
    { [lore |-> JStr(<<SectionSign, "c", "R", "e", "d">>), category |-> Undefined],
      [lore |-> JStr(Rep("x", MaxLineLength - 1)), category |-> Undefined],
      [lore |-> JStr(Rep("x", MaxLineLength)), category |-> Undefined],
      [lore |-> JArr(<<JStr(T_Sharp), JStr(T_Fast)>>), category |-> JStr(T_2024)] }

\* { name, level }
Enchantment(name, level) == JObj(<<Pair(T_name, JStr(name)), Pair(T_level, JNum(level))>>)
EnchantmentInputs == { Enchantment(T_sharpness, 3), Enchantment(T_luck, 1) }
EnchantmentNames == {T_sharpness}
EnchantmentMaps == { EmptyObj, JObj(<<Pair(T_sharpness, Enchantment(T_sharpness, 1))>>) }

\* { effect, name, level }
Effect(name, level) ==
    JObj(<<Pair(T_effect, JStr(name)), Pair(T_name, JStr(name)), Pair(T_level, JNum(level))>>)
EffectInputs == { Effect(T_speed, 1) }
EffectNames == {T_speed}
EffectMaps == { EmptyObj }

\* the values of the generic setDynamicProperty() calls on the wrapper
ItemValues == { JObj(<<Pair(T_a, JNum(1))>>) }

LoreLists == { <<>>, <<T_Hand>> }
EnchantmentTypes == {"unbreaking"}

\* the wrapper and the player's slots before a call
Cur == Machine(item, container, equipment)

\* what each call leaves, for every argument it is called with
SetDynamicPropertyResults(values) == { setDynamicProperty(Cur, "stats", v) : v \in values }
SetLoreResults == { setLore(Cur, l) : l \in LoreLists }
AddLoreResults == { addLore(Cur, T_Hand) }
RemoveLoreResults == { removeLore(Cur, l) : l \in {JNum(0), JStr(T_Hand)} }
AddCustomLoreResults == { addCustomLore(Cur, i.lore, i.category) : i \in LoreInputs }
RemoveCustomLoreResults == { removeCustomLore(Cur, i.lore, i.category) : i \in LoreInputs }
SetCustomEnchantmentsResults == { setCustomEnchantments(Cur, e) : e \in EnchantmentMaps }
AddCustomEnchantmentResults == { addCustomEnchantment(Cur, e) : e \in EnchantmentInputs }
RemoveCustomEnchantmentResults == { removeCustomEnchantment(Cur, n) : n \in EnchantmentNames }
SetEffectsResults == { setEffects(Cur, e) : e \in EffectMaps }
AddEffectResults == { addEffect(Cur, e) : e \in EffectInputs }
RemoveEffectResults == { removeEffect(Cur, n) : n \in EffectNames }
UpdateLoreResults == { updateLore(Cur) }
SetDurabilityResults == { setDurability(Cur, d) : d \in {0, maxDurability} }
SetDamageResults == { setDamage(Cur, d) : d \in {0, maxDurability} }
AddDamageResults == { addDamage(Cur, d) : d \in 1..(maxDurability - item.damage) }

\* the call ends: its results become the state
Install(m) ==
    /\ calls < MaxItemCalls
    /\ calls' = calls + 1
    /\ item' = m.item
    /\ container' = m.container
    /\ equipment' = m.equipment
    /\ thrown' = m.thrown
    /\ UNCHANGED <<thisSlot, DurabilityComponent, EnchantableComponent, maxDurability, worldProps>>

\* the item before it is wrapped: no lore, no properties, some damage
FreshItem(damage) ==
    [lore |-> <<>>, props |-> [k \in PropKeys |-> Undefined], damage |-> damage, enchantments |-> {}]

\* the wrappers of the model: without a slot, on a container slot, on an
\* equipment slot, and on a container slot with an item that has neither component
Wrappers ==
    { [slot |-> NoSlot, components |-> TRUE],
      [slot |-> [num |-> 0], components |-> TRUE],
      [slot |-> [equip |-> "Mainhand"], components |-> TRUE],
      [slot |-> [num |-> 0], components |-> FALSE] }

\* new ItemData(item, player, slot), the item taken from the slot
ItemInit ==
    \E w \in Wrappers :
        LET original == FreshItem(IF w.components THEN MaxDurability ELSE 0)
        IN /\ thisSlot = w.slot
           /\ DurabilityComponent = w.components
           /\ EnchantableComponent = w.components
           /\ maxDurability = (IF w.components THEN MaxDurability ELSE 0)
           /\ item = (IF w.components THEN [original EXCEPT !.damage = 0] ELSE original)
           /\ container = (IF "equip" \in DOMAIN w.slot THEN NoItem ELSE original)
           /\ equipment = (IF "equip" \in DOMAIN w.slot THEN original ELSE NoItem)
           /\ inserted = <<>>
           /\ calls = 0

SetDynamicProperty(values) ==
    \E m \in SetDynamicPropertyResults(values) : Install(m) /\ UNCHANGED inserted
SetLore == \E m \in SetLoreResults : Install(m) /\ UNCHANGED inserted
AddLore == \E m \in AddLoreResults : Install(m) /\ UNCHANGED inserted
RemoveLore == \E m \in RemoveLoreResults : Install(m) /\ UNCHANGED inserted
AddCustomLoreOf(inputs) ==
    \E i \in inputs :
        /\ Install(addCustomLore(Cur, i.lore, i.category))
        /\ inserted' = IF \E k \in 1..Len(inserted) : inserted[k] = LoreKey(i.lore, i.category)
                         THEN inserted
                         ELSE Append(inserted, LoreKey(i.lore, i.category))
AddCustomLore == AddCustomLoreOf(LoreInputs)
RemoveCustomLore ==
    \E i \in LoreInputs :
        /\ Install(removeCustomLore(Cur, i.lore, i.category))
        /\ inserted' = SelectSeq(inserted, LAMBDA k : k # LoreKey(i.lore, i.category))
SetCustomEnchantments == \E m \in SetCustomEnchantmentsResults : Install(m) /\ UNCHANGED inserted
AddCustomEnchantment == \E m \in AddCustomEnchantmentResults : Install(m) /\ UNCHANGED inserted
RemoveCustomEnchantment ==
    \E m \in RemoveCustomEnchantmentResults : Install(m) /\ UNCHANGED inserted
SetEffects == \E m \in SetEffectsResults : Install(m) /\ UNCHANGED inserted
AddEffect == \E m \in AddEffectResults : Install(m) /\ UNCHANGED inserted
RemoveEffect == \E m \in RemoveEffectResults : Install(m) /\ UNCHANGED inserted
UpdateLore == \E m \in UpdateLoreResults : Install(m) /\ UNCHANGED inserted
AddEnchantment ==
    \E t \in EnchantmentTypes : Install(addEnchantment(Cur, t)) /\ UNCHANGED inserted
RemoveEnchantment ==
    \E t \in EnchantmentTypes : Install(removeEnchantment(Cur, t)) /\ UNCHANGED inserted
RemoveAllEnchantments == Install(removeAllEnchantments(Cur)) /\ UNCHANGED inserted
SetDurability == \E m \in SetDurabilityResults : Install(m) /\ UNCHANGED inserted
SetDamage == \E m \in SetDamageResults : Install(m) /\ UNCHANGED inserted
AddDamage == \E m \in AddDamageResults : Install(m) /\ UNCHANGED inserted
RepairItem == Install(repairItem(Cur)) /\ UNCHANGED inserted

ItemIdle ==
    /\ thisSlot = NoSlot /\ DurabilityComponent = FALSE /\ EnchantableComponent = FALSE
    /\ maxDurability = 0 /\ item = FreshItem(0) /\ container = NoItem /\ equipment = NoItem
    /\ inserted = <<>>
    /\ calls = 0

(***************************************************************************)
(* The calls made on the world store                                       *)
(***************************************************************************)
WorldKeys == {"k1", "k2"}

\* the values the two stores are given
StoreValues == { JStr(T_hi), JStr(T_42), JNum(42), JBool(TRUE), JNull,
                 JArr(<<JNum(1), JStr(T_a)>>), JObj(<<Pair(T_a, JNum(1))>>) }

WorldInit == worldProps = [k \in WorldKeys |-> Undefined] /\ thrown = NoError

WorldSetDynamicProperty ==
    \E k \in WorldKeys, v \in StoreValues \cup {Undefined} :
        /\ worldProps' = World_setDynamicProperty(worldProps, k, v).props
        /\ thrown' = World_setDynamicProperty(worldProps, k, v).thrown
        /\ UNCHANGED itemVars

(***************************************************************************)
(* Specifications                                                          *)
(***************************************************************************)
FormNext ==
    \/ Title /\ UNCHANGED <<queueVars, itemVars, storeVars>>
    \/ Button /\ UNCHANGED <<queueVars, itemVars, storeVars>>
    \/ Pattern /\ UNCHANGED <<queueVars, itemVars, storeVars>>

InitForm == FormInit /\ QueueInit /\ ItemIdle /\ WorldInit
SpecForm == InitForm /\ [][FormNext]_vars

QueueNext ==
    \/ QueueForm /\ UNCHANGED <<formVars, itemVars, storeVars>>
    \/ HostResolve /\ UNCHANGED <<formVars, itemVars, storeVars>>
    \/ HostReject /\ UNCHANGED <<formVars, itemVars, storeVars>>

InitQueue == FormIdle /\ QueueInit /\ ItemIdle /\ WorldInit
SpecQueue == InitQueue /\ [][QueueNext]_vars

\* the host settles the pending promise of chain i with something other than
\* a "user busy" cancellation: a selection, another cancellation, a rejection
HostFinal(i) ==
    /\ chains[i].status = "pending"
    /\ \/ \E response \in Responses, callbackThrows \in BOOLEAN :
             /\ ~IsBusy(response)
             /\ chains' = [chains EXCEPT ![i] = OnResponse(@, response, callbackThrows)]
       \/ chains' = [chains EXCEPT ![i] = OnReject(@)]
    /\ UNCHANGED <<formVars, itemVars, storeVars>>

\* queueForm(steve, menu, callback) calls and the host's answers
FairNext ==
    \/ QueueFormOf({"steve"}, {"menu"}) /\ UNCHANGED <<formVars, itemVars, storeVars>>
    \/ HostResolve /\ UNCHANGED <<formVars, itemVars, storeVars>>
    \/ HostReject /\ UNCHANGED <<formVars, itemVars, storeVars>>

\* queueForm under a host that does not answer "user busy" for ever
SpecQueueFair == InitQueue /\ [][FairNext]_vars /\ \A i \in 1..MaxCalls : WF_vars(HostFinal(i))

ItemNext ==
    \/ SetLore /\ UNCHANGED <<formVars, queueVars>>
    \/ AddLore /\ UNCHANGED <<formVars, queueVars>>
    \/ RemoveLore /\ UNCHANGED <<formVars, queueVars>>
    \/ AddCustomLore /\ UNCHANGED <<formVars, queueVars>>
    \/ RemoveCustomLore /\ UNCHANGED <<formVars, queueVars>>
    \/ SetCustomEnchantments /\ UNCHANGED <<formVars, queueVars>>
    \/ AddCustomEnchantment /\ UNCHANGED <<formVars, queueVars>>
    \/ RemoveCustomEnchantment /\ UNCHANGED <<formVars, queueVars>>
    \/ SetEffects /\ UNCHANGED <<formVars, queueVars>>
    \/ AddEffect /\ UNCHANGED <<formVars, queueVars>>
    \/ RemoveEffect /\ UNCHANGED <<formVars, queueVars>>
    \/ UpdateLore /\ UNCHANGED <<formVars, queueVars>>
    \/ SetDurability /\ UNCHANGED <<formVars, queueVars>>
    \/ SetDamage /\ UNCHANGED <<formVars, queueVars>>

InitItem == FormIdle /\ QueueInit /\ ItemInit /\ WorldInit
SpecItem == InitItem /\ [][ItemNext]_vars

StoreNext ==
    \/ SetDynamicProperty(StoreValues \cup {Undefined}) /\ UNCHANGED <<formVars, queueVars>>
    \/ WorldSetDynamicProperty /\ UNCHANGED <<formVars, queueVars>>

InitStore == FormIdle /\ QueueInit /\ ItemInit /\ WorldInit
SpecStore == InitStore /\ [][StoreNext]_vars

DurabilityNext ==
    \/ SetDurability /\ UNCHANGED <<formVars, queueVars>>
    \/ SetDamage /\ UNCHANGED <<formVars, queueVars>>
    \/ AddDamage /\ UNCHANGED <<formVars, queueVars>>
    \/ RepairItem /\ UNCHANGED <<formVars, queueVars>>
    \/ AddEnchantment /\ UNCHANGED <<formVars, queueVars>>
    \/ RemoveEnchantment /\ UNCHANGED <<formVars, queueVars>>
    \/ RemoveAllEnchantments /\ UNCHANGED <<formVars, queueVars>>
    \/ AddCustomEnchantment /\ UNCHANGED <<formVars, queueVars>>

InitDurability == FormIdle /\ QueueInit /\ ItemInit /\ WorldInit
SpecDurability == InitDurability /\ [][DurabilityNext]_vars

\* the calls that fill the mappings updateLore() reads, with long lines
PaddingNext ==
    \/ AddCustomLoreOf(LongLoreInputs) /\ UNCHANGED <<formVars, queueVars>>
    \/ AddCustomEnchantment /\ UNCHANGED <<formVars, queueVars>>
    \/ AddEffect /\ UNCHANGED <<formVars, queueVars>>
    \/ UpdateLore /\ UNCHANGED <<formVars, queueVars>>

SpecPadding == InitItem /\ [][PaddingNext]_vars

(***************************************************************************)
(* Properties of ItemData                                                  *)
(***************************************************************************)
\* the lore updateLore() gives for the mappings m holds
RegeneratedLore(m) == updateLore(m).item.lore

EnchantmentMutatorResults ==
    SetCustomEnchantmentsResults \cup AddCustomEnchantmentResults
        \cup RemoveCustomEnchantmentResults

LoreAndEffectMutatorResults ==
    AddCustomLoreResults \cup RemoveCustomLoreResults
        \cup SetEffectsResults \cup AddEffectResults \cup RemoveEffectResults

\* C1 as stated: each of the eight custom-metadata mutators returns with the
\* lore equal to the regenerated lore of the mappings it leaves
C1_Original ==
    \A m \in EnchantmentMutatorResults \cup LoreAndEffectMutatorResults :
        m.thrown = NoError => m.item.lore = RegeneratedLore(m)

\* C1: setCustomEnchantments, addCustomEnchantment and removeCustomEnchantment
\* return with the lore equal to the regenerated lore of the mappings they
\* leave; addCustomLore, removeCustomLore, setEffects, addEffect and
\* removeEffect return with the lore they found
C1_EnchantmentMutatorsRegenerate ==
    /\ \A m \in EnchantmentMutatorResults :
           m.thrown = NoError => m.item.lore = RegeneratedLore(m)
    /\ \A m \in LoreAndEffectMutatorResults : m.item.lore = item.lore

\* custom lore was stored, then a custom enchantment: the lore is regenerated
C1_Witness ==
    /\ item.props["lore"] # Undefined
    /\ item.props["enchantments"] # Undefined
    /\ Len(item.lore) >= 3
    /\ item.lore = RegeneratedLore(Cur)

WriteBackResults ==
    SetDynamicPropertyResults(ItemValues) \cup SetLoreResults \cup AddLoreResults
        \cup RemoveLoreResults \cup EnchantmentMutatorResults \cup LoreAndEffectMutatorResults
        \cup SetDurabilityResults \cup SetDamageResults \cup AddDamageResults
        \cup UpdateLoreResults

C5_RoundTrip ==
    /\ \A v \in StoreValues :
           getDynamicProperty(setDynamicProperty(Cur, "stats", v), "stats") = v
    /\ \A k \in WorldKeys, v \in StoreValues :
           World_getDynamicProperty(World_setDynamicProperty(worldProps, k, v).props, k) = v

\* C6: setDynamicProperty(k, undefined) throws the invalid-value error and
\* changes nothing: the item, the world's properties and the player's slots
\* are as before, and nothing is written to a slot
C6_UndefinedRejected ==
    /\ \A k \in PropKeys :
           LET m == setDynamicProperty(Cur, k, Undefined)
           IN /\ m.thrown = InvalidValue
              /\ m.writes = 0
              /\ m.item = item /\ m.container = container /\ m.equipment = equipment
    /\ \A k \in WorldKeys :
           LET r == World_setDynamicProperty(worldProps, k, Undefined)
           IN r.thrown = InvalidValue /\ r.props = worldProps

\* a call with undefined has thrown on stores that hold values
C6_Witness ==
    /\ thrown = InvalidValue
    /\ item.props["stats"] # Undefined
    /\ \E k \in WorldKeys : worldProps[k] # Undefined

\* addCustomEnchantment(e) and then removeCustomEnchantment(e.name)
AddThenRemove(e) ==
    removeCustomEnchantment(addCustomEnchantment(Cur, e), ObjGet(e.obj, T_name).str)

\* C7 as stated: after addCustomEnchantment(e) and removeCustomEnchantment(e.name)
\* the lore is the lore before the add
C7_Original == \A e \in EnchantmentInputs : AddThenRemove(e).item.lore = item.lore

\* C7: after addCustomEnchantment(e) and removeCustomEnchantment(e.name) the
\* lore is the regenerated lore of the mappings without e.name; it is the lore
\* before the add when that lore was regenerated and e.name was no custom
\* enchantment
C7_AddRemoveRestores ==
    \A e \in EnchantmentInputs :
        LET name == ObjGet(e.obj, T_name).str
            without == setDynamicProperty(Cur, "enchantments",
                           JObj(ObjDelete(getCustomEnchantments(Cur).obj, name)))
        IN /\ AddThenRemove(e).item.lore = RegeneratedLore(without)
           /\ (item.lore = RegeneratedLore(Cur) /\ ~ObjHas(getCustomEnchantments(Cur).obj, name))
                  => AddThenRemove(e).item.lore = item.lore

\* the last custom enchantment was removed from an item with custom lore
C7_Witness ==
    /\ item.props["enchantments"] = JStr(<<"{", "}">>)
    /\ item.props["lore"] # Undefined
    /\ Len(item.lore) >= 2
    /\ item.lore = RegeneratedLore(Cur)

\* a line without the spaces that center it
RECURSIVE LeftTrim(_)
LeftTrim(line) == IF line # <<>> /\ Head(line) = " " THEN LeftTrim(Tail(line)) ELSE line

Bold(text) == BOLD \o text \o RESET

\* the texts of one custom-lore entry
EntryTexts(key) ==
    LET entry == ObjGet(getCustomLore(Cur).obj, key)
    IN IF IsStr(entry) THEN <<entry.str>>
       ELSE <<Bold(key)>> \o [i \in 1..Len(entry.arr) |-> entry.arr[i].str]

RECURSIVE EntriesTexts(_)
EntriesTexts(keys) ==
    IF keys = <<>> THEN <<>> ELSE EntryTexts(Head(keys)) \o EntriesTexts(Tail(keys))

EnchantmentTexts ==
    LET pairs == getCustomEnchantments(Cur).obj
    IN [i \in 1..Len(pairs) |->
           TitleOf(EnchantmentTitles, ObjGet(pairs[i][2].obj, T_name).str)
               \o <<" ">> \o NumToText(ObjGet(pairs[i][2].obj, T_level).num)]

EffectTexts ==
    LET pairs == getEffects(Cur).obj
    IN IF pairs = <<>> THEN <<>>
       ELSE <<Bold(T_Effects)>>
            \o [i \in 1..Len(pairs) |-> TitleOf(ItemEffects, ObjGet(pairs[i][2].obj, T_name).str)]

\* the sections of the lore, the custom-lore entries in the order keys
SectionTexts(keys) ==
    EntriesTexts(keys) \o <<Bold(T_Enchantments)>> \o EnchantmentTexts \o EffectTexts

RegeneratedTexts ==
    [i \in 1..Len(RegeneratedLore(Cur)) |-> LeftTrim(RegeneratedLore(Cur)[i])]

\* the keys that are array indices in ascending order, then the other keys in
\* the order they were added
KeyOrder(keys) ==
    LET indices == { k \in 1..Len(keys) : IsArrayIndex(keys[k]) }
        ascending == CHOOSE q \in [1..Cardinality(indices) -> indices] :
                         \A i, j \in 1..Cardinality(indices) :
                             i < j => TextToNat(keys[q[i]]) < TextToNat(keys[q[j]])
    IN [i \in 1..Cardinality(indices) |-> keys[ascending[i]]]
       \o SelectSeq(keys, LAMBDA k : ~IsArrayIndex(k))

\* custom lore {"Info": "Rare Item"}, the custom enchantment sharpness 3, no effects
IsScenario ==
    /\ getCustomLore(Cur) = JObj(<<Pair(T_Info, JStr(T_RareItem))>>)
    /\ getCustomEnchantments(Cur) = JObj(<<Pair(T_sharpness, Enchantment(T_sharpness, 3))>>)
    /\ getEffects(Cur) = EmptyObj

ScenarioLore ==
    << Rep(" ", 9) \o T_RareItem,
       Rep(" ", 5) \o Bold(T_Enchantments),
       Rep(" ", 8) \o T_Sharpness \o <<" ", "3">> >>

C3_BusyResubmitsOnce ==
    \A i \in 1..MaxCalls :
        LET c == chains[i] IN
        c.status # "idle" =>
            /\ \A k \in 1..Len(c.settled) :
                  /\ IsBusy(c.settled[k]) =>
                        /\ Len(c.shown) >= k + 1
                        /\ c.shown[k + 1] = [player |-> c.player, form |-> c.form]
                        /\ k = Len(c.settled) => Len(c.shown) = k + 1 /\ c.status = "pending"
                  /\ IsCancel(c.settled[k]) /\ ~IsBusy(c.settled[k]) =>
                        /\ k = Len(c.settled)
                        /\ Len(c.shown) = k
                        /\ c.called = <<>>
                        /\ c.status = "dropped"

\* a chain answered "busy" and then "closed"
C3_Witness ==
    \E i \in 1..MaxCalls :
        /\ Len(chains[i].settled) = 2
        /\ IsBusy(chains[i].settled[1])
        /\ IsCancel(chains[i].settled[2]) /\ ~IsBusy(chains[i].settled[2])

\* C4: the callback is invoked at most once and only with a response that is
\* not a cancellation; when the show() promise rejects, the fault is logged,
\* nothing is submitted again, the callback is not invoked, and no rejection
\* is left unhandled.
C4_CallbackOnceFaultsSwallowed ==
    \A i \in 1..MaxCalls :
        LET c == chains[i] IN
            /\ Len(c.called) <= 1
            /\ \A k \in 1..Len(c.called) : ~IsCancel(c.called[k])
            /\ c.uncaught = 0
            /\ \A k \in 1..Len(c.settled) :
                  IsRejection(c.settled[k]) =>
                      /\ k = Len(c.settled)
                      /\ Len(c.shown) = k
                      /\ c.logged = 1
                      /\ c.called = <<>>
                      /\ c.status = "faulted"

\* a chain whose second submission the host rejected
C4_Witness ==
    \E i \in 1..MaxCalls :
        /\ Len(chains[i].settled) = 2
        /\ IsRejection(chains[i].settled[2])
        /\ chains[i].logged = 1

(***************************************************************************)
(* Properties of ChestFormData                                             *)
(***************************************************************************)
\* the positions <<row, column>>, 0-based, of a row list
Positions(pat) ==
    UNION { { <<r, c>> : c \in 0..Len(pat[r + 1]) - 1 } : r \in 0..Len(pat) - 1 }

\* the positions of a row list that hold a character of the key mapping
KeyedPositions(pat, key) == { p \in Positions(pat) : pat[p[1] + 1][p[2] + 1] \in DOMAIN key }

\* the slots (0-based) a step changed
Changed(old, new) ==
    { i \in 0..Max(Len(old), Len(new)) - 1 :
        i >= Len(old) \/ i >= Len(new) \/ old[i + 1] # new[i + 1] }

\* the step is a call of pattern()
IsPatternStep == formCall'.op = "pattern" /\ <<buttonArray, formCall>>' # <<buttonArray, formCall>>

ClaimedSlots(s) ==
    CASE s \in {"single", "small", "27"} -> 27
      [] s \in {"double", "large", "54"} -> 54
      [] s = "5" -> 5
      [] s = "9" -> 9
      [] s = "18" -> 18
      [] s = "36" -> 36
      [] s = "45" -> 45
      [] OTHER -> 27

\* C10 as stated: after any sequence of title, button and pattern calls the
\* slot sequence, and the list of buttons show() sends, has the slot count of
\* the form's size.
C10_Original ==
    /\ Len(buttonArray) = ClaimedSlots(chestSize)
    /\ Len(show.buttons) = ClaimedSlots(chestSize)

\* the step is a call of button() with a slot at or past slotCount
IsOverflowStep ==
    /\ formCall'.op = "button"
    /\ formCall'.slot >= slotCount
    /\ <<buttonArray, formCall>>' # <<buttonArray, formCall>>

\* C10, amended: a new form has the slot count of its size, and title(),
\* pattern() and button() with a slot below slotCount keep the length of the
\* slot sequence and the number of buttons show() sends; button() with a slot
\* i >= slotCount grows the sequence to i + 1 elements.
C10_SlotCountKept ==
    /\ Len(buttonArray) = ClaimedSlots(chestSize)
    /\ Len(show.buttons) = ClaimedSlots(chestSize)
    /\ [](slotCount = ClaimedSlots(chestSize))
    /\ [][ /\ ~IsOverflowStep =>
                /\ Len(buttonArray') = Len(buttonArray)
                /\ Len(show'.buttons) = Len(show.buttons)
           /\ IsOverflowStep => Len(buttonArray') = Max(Len(buttonArray), formCall'.slot + 1)
         ]_vars

\* a form of an unknown size after a pattern() call, still with 27 slots
C10_Witness ==
    /\ chestSize = UnknownSize
    /\ formCall.op = "pattern"
    /\ Len(buttonArray) = 27
    /\ Len(show.buttons) = 27

(***************************************************************************)
(* Properties of the durability and of the built-in enchantments           *)
(***************************************************************************)
\* C11 as stated: on an item with a durability component, right after
\* repairItem() getDurability() gives maxDurability and getDamage() gives 0
C11_RepairRestores ==
    DurabilityComponent =>
        /\ getDurability(repairItem(Cur)) = maxDurability
        /\ getDamage(repairItem(Cur)) = 0

\* C12 as stated: on an item with an enchantable component, right after
\* removeAllEnchantments() getEnchantments() gives no enchantment and
\* hasEnchantment(x) is false for every x
C12_RemoveAllEmpties ==
    EnchantableComponent =>
        /\ getEnchantments(removeAllEnchantments(Cur)) = {}
        /\ \A x \in EnchantmentTypes : ~hasEnchantment(removeAllEnchantments(Cur), x)

(***************************************************************************)
(* Properties of updateLore()                                              *)
(***************************************************************************)
\* C13 as stated: one updateLore() on a wrapper with a slot writes the item to
\* its slot of the container or of the equipment exactly once, whatever the
\* custom lore, the custom enchantments and the effects are
C13_SingleWriteBack ==
    thisSlot # NoSlot =>
        \A m \in UpdateLoreResults : m.thrown = NoError => m.writes = 1

\* the spaces a lore line starts with
LeadingSpaces(line) == Len(line) - Len(LeftTrim(line))

\* a header: a text between the bold code and the reset code
IsHeaderText(text) ==
    /\ Len(text) >= Len(BOLD) + Len(RESET)
    /\ SubSeq(text, 1, Len(BOLD)) = BOLD
    /\ SubSeq(text, Len(text) - Len(RESET) + 1, Len(text)) = RESET

\* the padding claimed for a text of display length L, W the display length
\* of longestText: floor((W - L) / 2) + 1 for a header, floor((W - L) / 2 + 0.5) + 3
\* for any other line
ClaimedPad(text) ==
    IF IsHeaderText(text)
      THEN (Len(longestText) - Len(removeFormat(text))) \div 2 + 1
      ELSE (Len(longestText) - Len(removeFormat(text)) + 1) \div 2 + 3

\* C14 as stated: updateLore() never throws, and every line of the lore it
\* leaves starts with the claimed number of spaces, which is not negative
C14_Padding ==
    \A m \in UpdateLoreResults :
        /\ m.thrown = NoError
        /\ \A i \in 1..Len(m.item.lore) :
               /\ ClaimedPad(LeftTrim(m.item.lore[i])) >= 0
               /\ LeadingSpaces(m.item.lore[i]) = ClaimedPad(LeftTrim(m.item.lore[i]))

(***************************************************************************)
(* Termination of the retry chain of queueForm                             *)
(***************************************************************************)
Busy == [canceled |-> TRUE, cancelationReason |-> "UserBusy"]

\* a chain that submits nothing more
Terminated(c) == c.status \in {"done", "dropped", "faulted"}

\* how many of the answers are "user busy"
BusyCount(settled) == Len(SelectSeq(settled, IsBusy))

\* C15: a pending chain answered "user busy" submits the form once more,
\* however many submissions it has made; a chain has made one submission more
\* than it got "user busy" answers, and it has stopped exactly when its last
\* answer is not "user busy" (a selection, another cancellation, a rejection);
\* when the host gives every pending chain such an answer at some time, every
\* pending chain stops
C15_UnboundedRetry ==
    /\ [](\A i \in 1..MaxCalls : \A callbackThrows \in BOOLEAN :
              chains[i].status = "pending" =>
                  /\ OnResponse(chains[i], Busy, callbackThrows).status = "pending"
                  /\ Len(OnResponse(chains[i], Busy, callbackThrows).shown)
                         = Len(chains[i].shown) + 1)
    /\ [](\A i \in 1..MaxCalls :
              chains[i].status # "idle" =>
                  /\ Len(chains[i].shown) = BusyCount(chains[i].settled) + 1
                  /\ Terminated(chains[i]) <=>
                         /\ chains[i].settled # <<>>
                         /\ ~IsBusy(chains[i].settled[Len(chains[i].settled)]))
    /\ \A i \in 1..MaxCalls :
           (chains[i].status = "pending") ~> Terminated(chains[i])

\* a chain that was answered "user busy" up to the last submission of the
\* model and then stopped on another answer
C15_Witness ==
    \E i \in 1..MaxCalls :
        /\ Terminated(chains[i])
        /\ Len(chains[i].shown) = MaxShows
        /\ BusyCount(chains[i].settled) = MaxShows - 1

(***************************************************************************)
(* The damage of a wrapped item                                            *)
(***************************************************************************)
\* the item in the wrapper's slot, of the container cont or the equipment equip
SlotItem(cont, equip) == IF IsNumber(thisSlot) THEN cont ELSE equip

\* C16 as stated: on a wrapper with a slot and a durability component,
\* getDamage() right after the construction gives the damage of the item in
\* the slot, and setLore() and setDynamicProperty() leave the damage of the
\* item in the slot as it was
C16_DamageKept ==
    (DurabilityComponent /\ thisSlot # NoSlot) =>
        /\ calls = 0 => getDamage(Cur) = SlotItem(container, equipment).damage
        /\ \A m \in SetLoreResults \cup SetDynamicPropertyResults(ItemValues) :
               SlotItem(m.container, m.equipment).damage = SlotItem(container, equipment).damage
====
